---------------------------- MODULE Spec2Model ----------------------------
(***************************************************************************)
(* Content Store Access Layer of mac-board: the post mutator               *)
(* (services/firebase/firestore.ts) and the admin category engine          *)
(* (the category module carried in src/src/index.css, lines 674-983),      *)
(* over one Firestore database holding the posts collection and the       *)
(* settings/global-settings document with its ordered categories array.   *)
(*                                                                         *)
(* Every await on the store is one step: a getDoc / getDocs read, an       *)
(* addDoc / updateDoc / deleteDoc write, or the commit of a runTransaction.*)
(* A transaction whose reads go through transaction.get (addCategory,      *)
(* updateCategory) is serialisable and is one step.  At most one           *)
(* deleteCategory, one reorderCategories and one updatePost / deletePost / *)
(* movePost call are in flight at a time; the other calls are one step.    *)
(***************************************************************************)
EXTENDS Naturals, Integers, Sequences, FiniteSets, TLC

(***************************************************************************)
(* Bounds of the model.                                                    *)
(***************************************************************************)
MaxPosts == 2
MaxTime == 1
MaxCats == 5
MaxOps == 4
MaxLen == 4
MaxCreated == 1
MaxSkew == 2

VARIABLES
  categories,  \* settings/global-settings .categories: sequence of [id, name]
  posts,       \* posts collection: document id -> document, or NoPost
  nextId,      \* next store-assigned document id of addDoc
  now,         \* Timestamp.now()
  admin,       \* isAdminAuthenticated()
  ac,          \* the addCategory calls of two admin sessions, step by step
  dc,          \* the deleteCategory call in flight
  ro,          \* the reorderCategories call in flight
  pm,          \* the updatePost / deletePost / movePost call in flight
  rd,          \* the fetchPosts... call in flight, or the one that ended last
  last,        \* operation and outcome of the call that completed last
  ops          \* calls issued so far

vars == <<categories, posts, nextId, now, admin, ac, dc, ro, pm, rd, last, ops>>

(***************************************************************************)
(* Strings.  A name typed by the caller is a sequence of one-character     *)
(* strings, so that the slug can be computed character by character; what  *)
(* is stored is the string itself.                                         *)
(***************************************************************************)
RECURSIVE Str(_)
Str(s) == IF s = <<>> THEN "" ELSE Head(s) \o Str(Tail(s))

LowerLetters ==
  <<"a","b","c","d","e","f","g","h","i","j","k","l","m",
    "n","o","p","q","r","s","t","u","v","w","x","y","z">>

UpperLetters ==
  <<"A","B","C","D","E","F","G","H","I","J","K","L","M",
    "N","O","P","Q","R","S","T","U","V","W","X","Y","Z">>

Digits == {"0","1","2","3","4","5","6","7","8","9"}

SlugChars == {LowerLetters[k] : k \in 1..26} \cup Digits

WhiteSpace == {" "}

ToLowerCase(s) ==
  [i \in 1..Len(s) |->
     IF \E k \in 1..26 : UpperLetters[k] = s[i]
       THEN LowerLetters[CHOOSE k \in 1..26 : UpperLetters[k] = s[i]]
       ELSE s[i]]

RECURSIVE TrimStart(_)
TrimStart(s) ==
  IF s # <<>> /\ Head(s) \in WhiteSpace THEN TrimStart(Tail(s)) ELSE s

RECURSIVE TrimEnd(_)
TrimEnd(s) ==
  IF s # <<>> /\ s[Len(s)] \in WhiteSpace
    THEN TrimEnd(SubSeq(s, 1, Len(s) - 1))
    ELSE s

Trim(s) == TrimEnd(TrimStart(s))

\* .replace(/[^a-z0-9]/g, '-')
ReplaceNonSlugChars(s) ==
  [i \in 1..Len(s) |-> IF s[i] \in SlugChars THEN s[i] ELSE "-"]

\* .replace(/-+/g, '-')
RECURSIVE CollapseHyphens(_)
CollapseHyphens(s) ==
  IF Len(s) < 2 THEN s
  ELSE IF s[1] = "-" /\ s[2] = "-" THEN CollapseHyphens(Tail(s))
  ELSE <<s[1]>> \o CollapseHyphens(Tail(s))

\* variant: only the hyphen in front is removed
StripLeadingHyphen(s) ==
  IF s # <<>> /\ Head(s) = "-" THEN Tail(s) ELSE s

\* .replace(/^-|-$/g, '')
StripEdgeHyphens(s) ==
  LET a == IF s # <<>> /\ Head(s) = "-" THEN Tail(s) ELSE s
  IN  IF a # <<>> /\ a[Len(a)] = "-" THEN SubSeq(a, 1, Len(a) - 1) ELSE a

Slug(name) ==
  StripEdgeHyphens(CollapseHyphens(ReplaceNonSlugChars(Trim(ToLowerCase(name)))))

(***************************************************************************)
(* Category list helpers.                                                  *)
(***************************************************************************)
Cat(i, n) == [id |-> i, name |-> n]

SystemIds == {"general", "tech", "questions"}

Ids(list) == {list[i].id : i \in 1..Len(list)}

Names(list) == {list[i].name : i \in 1..Len(list)}

Entries(list) == {list[i] : i \in 1..Len(list)}

\* Array.prototype.findIndex: the first index, 0 when there is none
FindIndex(list, cid) ==
  IF cid \in Ids(list)
    THEN CHOOSE i \in 1..Len(list) :
           /\ list[i].id = cid
           /\ \A j \in 1..(i - 1) : list[j].id # cid
    ELSE 0

\* Firestore arrayUnion: appends the element unless an equal one is there
ArrayUnion(list, e) == IF e \in Entries(list) THEN list ELSE Append(list, e)

\* Firestore arrayRemove: removes every element equal to e
ArrayRemove(list, e) == SelectSeq(list, LAMBDA x : x # e)


(***************************************************************************)
(* Inputs the callers draw from.                                           *)
(***************************************************************************)
\* names given to addCategory; their slugs are "a", "a", "a-b" and ""
AddNames == {<<"a">>, <<"A">>, <<" ", "a", "!", "b">>, <<"!">>}

\* names typed character by character, up to MaxLen characters
TypedChars == {"a", "B", "-", " "}

RECURSIVE TypedUpTo(_)
TypedUpTo(n) ==
  IF n = 0 THEN {<<>>}
  ELSE TypedUpTo(n - 1) \cup {Append(t, ch) : t \in TypedUpTo(n - 1), ch \in TypedChars}

TypedNames == TypedUpTo(MaxLen)

\* names given to updateCategory
NewNames == {"a", "A"}

\* category ids given to updateCategory and deleteCategory
CategoryArgs == {"general", "tech", "questions", "a", "a-b"}

\* category ids given to createPost and movePost; "nope" is never listed
PostCategories == {"general", "a", "nope"}

\* the optional userId argument: left out, empty, or a user's uid
NoUid == "undefined"
ActingUsers == {NoUid, "", "u1", "u2"}

\* the postData given to updatePost
Patches ==
  { [title |-> "t2"],
    [category |-> "nope"],
    [authorId |-> "u2", createdAt |-> 99, id |-> "x", updatedAt |-> 0] }

\* the postData given to createPost: complete ones, one of them with values
\* for the fields createPost sets itself; the others with a required field
\* empty or left out
NewPosts ==
  { [title |-> "t1", content |-> "c", category |-> c, author |-> "n", authorId |-> "u1"]
      : c \in PostCategories \ {"nope"} }
  \cup
  { [title |-> "t1", content |-> "c", category |-> "nope", author |-> "n", authorId |-> "u1",
     tags |-> <<"t">>, createdAt |-> 99, updatedAt |-> 98, commentCount |-> 5,
     viewCount |-> 7, id |-> "x"],
    [title |-> "t1", content |-> "c", category |-> "general", authorId |-> "u1"] }
  \cup
  { [title |-> "", content |-> "c", category |-> "general", author |-> "n", authorId |-> "u1"],
    [title |-> "t1", content |-> "c", category |-> "", author |-> "n", authorId |-> "u1"],
    [title |-> "t1", content |-> "c", category |-> "general", author |-> "n", authorId |-> ""] }

Swap(list, i, j) == [list EXCEPT ![i] = list[j], ![j] = list[i]]

Without(list, i) == SubSeq(list, 1, i - 1) \o SubSeq(list, i + 1, Len(list))

\* the lists given to reorderCategories: the stored list itself, two entries
\* exchanged, an entry left out, an unknown entry added, an entry repeated
\* (under its own or another entry's name), an entry under another's name
Candidates(list) ==
  LET I == 1..Len(list) IN
    {list}
    \cup {Swap(list, i, j) : i \in I, j \in I}
    \cup {Without(list, i) : i \in I}
    \cup {Append(list, Cat("ghost", "Ghost"))}
    \cup {Append(list, Cat(list[i].id, list[j].name)) : i \in I, j \in I}
    \cup {[list EXCEPT ![i].name = list[j].name] : i \in I, j \in I}

(***************************************************************************)
(* The store and the calls in flight.                                      *)
(***************************************************************************)
PostIds == 1..MaxPosts

NoPost == [absent |-> TRUE]

Exists(p) == posts[p] # NoPost

Idle == [pc |-> "idle"]

\* isAdminAuthenticated() of the admin module's auth file: whether the
\* caller's session is signed in as administrator; it touches no store data
IsAdminAuthenticated == admin

\* two admin sessions that may call addCategory at the same time
AddCallers == {1, 2}

\* JavaScript truthiness of the optional userId: undefined and '' are falsy
Truthy(u) == u \notin {NoUid, ""}

Done(op, outcome) == last' = [op |-> op, outcome |-> outcome]

\* variant: addCategory without the name comparison
AddOutcomeNoNameCheck(name) ==
  IF ~IsAdminAuthenticated THEN "admin"
  ELSE IF Str(Slug(name)) = "" THEN "no-slug"
  ELSE IF Str(Slug(name)) \in Ids(categories) THEN "id-in-use"
  ELSE "ok"

\* the category module's validation errors, by the message each one throws:
\* the first two are thrown before the first store call, the others inside
\* the transaction or after the getDoc
LocalValidation == {"system-category", "no-slug"}
ValidationErrors ==
  LocalValidation \cup {"id-in-use", "name-in-use", "id-missing", "id-unknown"}

Issue == ops < MaxOps /\ ops' = ops + 1

\* history of the deleteCategory call in flight: another call wrote meanwhile
Disturb(call) == IF call.pc = "idle" THEN call ELSE [call EXCEPT !.quiet = FALSE]

Init ==
  /\ categories = <<Cat("general", "General"), Cat("tech", "Tech"),
                    Cat("questions", "Questions")>>
  /\ posts = [p \in PostIds |-> NoPost]
  /\ nextId = 1
  /\ now = 0
  /\ admin \in BOOLEAN
  /\ ac = [c \in AddCallers |-> Idle]
  /\ dc = Idle
  /\ ro = Idle
  /\ pm = Idle
  /\ rd = Idle
  /\ last = [op |-> "none", outcome |-> "none"]
  /\ ops = 0

Tick ==
  /\ now < MaxTime
  /\ now' = now + 1
  /\ UNCHANGED <<categories, posts, nextId, admin, ac, rd, dc, ro, pm, last, ops>>

(***************************************************************************)
(* Category engine.                                                        *)
(***************************************************************************)
AddOutcome(name) ==
  IF ~IsAdminAuthenticated THEN "admin"
  ELSE IF Str(Slug(name)) = "" THEN "no-slug"
  ELSE IF Str(Slug(name)) \in Ids(categories) THEN "id-in-use"
  ELSE IF Str(name) \in Names(categories) THEN "name-in-use"
  ELSE "ok"

AddCategory(name) ==
  /\ Issue
  /\ AddOutcome(name) = "ok" => Len(categories) < MaxCats
  /\ categories' =
       IF AddOutcome(name) = "ok"
         THEN ArrayUnion(categories, Cat(Str(Slug(name)), Str(name)))
         ELSE categories
  /\ dc' = IF AddOutcome(name) = "ok" THEN Disturb(dc) ELSE dc
  /\ last' = IF AddOutcome(name) = "ok"
               THEN [op |-> "addCategory", outcome |-> "ok", returned |-> Str(Slug(name))]
               ELSE [op |-> "addCategory", outcome |-> AddOutcome(name)]
  /\ UNCHANGED <<posts, nextId, now, admin, ac, rd, ro, pm>>

(***************************************************************************)
(* addCategory step by step.  runTransaction is optimistic: the update     *)
(* function reads the settings document with transaction.get and stages    *)
(* its write; the commit is applied only if the document is still as it    *)
(* was read, otherwise the store's client runs the update function again.  *)
(* An error thrown by the update function ends the transaction.            *)
(***************************************************************************)
InFlight(call) == call.pc \in {"get", "commit"}

\* the names the two sessions type
RaceNames == {<<"a">>, <<"A">>, <<" ", "a", "!", "b">>, <<"!">>, <<"t", "e", "c", "h">>}

\* the two duplicate checks of the update function, on the list it has read
AddCheck(seen, name) ==
  IF Str(Slug(name)) \in Ids(seen) THEN "id-in-use"
  ELSE IF Str(name) \in Names(seen) THEN "name-in-use"
  ELSE "ok"

\* verifyAdminAuth, the slug, the empty-slug test; then runTransaction starts
AddStart(c, name) ==
  /\ ~InFlight(ac[c])
  /\ Issue
  /\ LET outcome == IF ~IsAdminAuthenticated THEN "admin"
                     ELSE IF Str(Slug(name)) = "" THEN "no-slug"
                     ELSE "pending"
         call == [pc |-> IF outcome = "pending" THEN "get" ELSE "done",
                  name |-> name, seen |-> <<>>, outcome |-> outcome,
                  seq |-> ops + 1,
                  peer |-> IF InFlight(ac[3 - c]) THEN ac[3 - c].seq ELSE 0,
                  base |-> categories]
     IN  /\ ac' = [ac EXCEPT ![c] = call]
         /\ IF outcome = "pending" THEN UNCHANGED last
                                   ELSE Done("addCategory", outcome)
  /\ UNCHANGED <<categories, posts, nextId, now, admin, dc, ro, pm, rd>>

\* const settingsDoc = await transaction.get(settingsRef)
TransactionGet(c) ==
  /\ ac[c].pc = "get"
  /\ ac' = [ac EXCEPT ![c].pc = "commit", ![c].seen = categories]
  /\ UNCHANGED <<categories, posts, nextId, now, admin, dc, ro, pm, rd, last, ops>>

\* variant: the commit is applied whatever has been written since the read
TransactionCommitBlind(c) ==
  /\ ac[c].pc = "commit"
  /\ LET outcome == AddCheck(ac[c].seen, ac[c].name)
         id == Str(Slug(ac[c].name))
     IN  IF outcome # "ok"
           THEN /\ ac' = [ac EXCEPT ![c].pc = "done", ![c].outcome = outcome]
                /\ Done("addCategory", outcome)
                /\ UNCHANGED <<categories, dc>>
           ELSE /\ Len(categories) < MaxCats
                /\ categories' = ArrayUnion(categories, Cat(id, Str(ac[c].name)))
                /\ dc' = Disturb(dc)
                /\ ac' = [ac EXCEPT ![c].pc = "done", ![c].outcome = "ok"]
                /\ last' = [op |-> "addCategory", outcome |-> "ok", returned |-> id]
  /\ UNCHANGED <<posts, nextId, now, admin, ro, pm, rd, ops>>

\* the rest of the update function and the commit: a failed check throws;
\* a staged write is committed if the document is as it was read, and the
\* update function runs again if it is not
TransactionCommit(c) ==
  /\ ac[c].pc = "commit"
  /\ LET outcome == AddCheck(ac[c].seen, ac[c].name)
         id == Str(Slug(ac[c].name))
     IN  IF outcome # "ok"
           THEN /\ ac' = [ac EXCEPT ![c].pc = "done", ![c].outcome = outcome]
                /\ Done("addCategory", outcome)
                /\ UNCHANGED <<categories, dc>>
           ELSE IF categories # ac[c].seen
             THEN /\ ac' = [ac EXCEPT ![c].pc = "get"]
                  /\ UNCHANGED <<categories, dc, last>>
             ELSE /\ Len(categories) < MaxCats
                  /\ categories' = ArrayUnion(categories, Cat(id, Str(ac[c].name)))
                  /\ dc' = Disturb(dc)
                  /\ ac' = [ac EXCEPT ![c].pc = "done", ![c].outcome = "ok"]
                  /\ last' = [op |-> "addCategory", outcome |-> "ok", returned |-> id]
  /\ UNCHANGED <<posts, nextId, now, admin, ro, pm, rd, ops>>

\* fetchCategories: one getDoc of the settings document, no verifyAdminAuth
FetchCategories ==
  /\ Issue
  /\ last' = [op |-> "fetchCategories", outcome |-> "ok", returned |-> categories]
  /\ UNCHANGED <<categories, posts, nextId, now, admin, ac, dc, ro, pm, rd>>

\* variant: updateCategory without its system-category guard
UpdateOutcomeUnguarded(categoryId, updatedName) ==
  IF ~IsAdminAuthenticated THEN "admin"
  ELSE IF FindIndex(categories, categoryId) = 0 THEN "notfound"
  ELSE IF \E i \in 1..Len(categories) :
            /\ categories[i].name = updatedName
            /\ i # FindIndex(categories, categoryId)
         THEN "name-in-use"
  ELSE "ok"

UpdateOutcome(categoryId, updatedName) ==
  IF ~IsAdminAuthenticated THEN "admin"
  ELSE IF categoryId \in SystemIds THEN "system-category"
  ELSE IF FindIndex(categories, categoryId) = 0 THEN "notfound"
  ELSE IF \E i \in 1..Len(categories) :
            /\ categories[i].name = updatedName
            /\ i # FindIndex(categories, categoryId)
         THEN "name-in-use"
  ELSE "ok"

UpdateCategory(categoryId, updatedName) ==
  /\ Issue
  /\ categories' =
       IF UpdateOutcome(categoryId, updatedName) = "ok"
         THEN [categories EXCEPT ![FindIndex(categories, categoryId)].name = updatedName]
         ELSE categories
  /\ dc' = IF UpdateOutcome(categoryId, updatedName) = "ok" THEN Disturb(dc) ELSE dc
  /\ Done("updateCategory", UpdateOutcome(categoryId, updatedName))
  /\ UNCHANGED <<posts, nextId, now, admin, ac, rd, ro, pm>>

\* deleteCategory up to its getDoc: the guards, then the entry it will remove
\* variant: deleteCategory without verifyAdminAuth
DeleteReadOutcomeUngated(categoryId) ==
  IF categoryId \in SystemIds THEN "system-category"
  ELSE IF FindIndex(categories, categoryId) = 0 THEN "notfound"
  ELSE "ok"

DeleteReadOutcome(categoryId) ==
  IF ~IsAdminAuthenticated THEN "admin"
  ELSE IF categoryId \in SystemIds THEN "system-category"
  ELSE IF FindIndex(categories, categoryId) = 0 THEN "notfound"
  ELSE "ok"

DeleteCategoryRead(categoryId) ==
  /\ dc.pc = "idle"
  /\ Issue
  /\ IF DeleteReadOutcome(categoryId) = "ok"
       THEN /\ dc' = [pc |-> "query", id |-> categoryId,
                      target |-> categories[FindIndex(categories, categoryId)],
                      matched |-> {}, ts |-> 0, quiet |-> TRUE]
            /\ UNCHANGED last
       ELSE /\ dc' = Idle
            /\ Done("deleteCategory", DeleteReadOutcome(categoryId))
  /\ UNCHANGED <<categories, posts, nextId, now, admin, ac, rd, ro, pm>>

\* inside the transaction function: getDocs(where category == id), a plain
\* query outside the transaction's reads, then the writes are staged
DeleteCategoryQuery ==
  /\ dc.pc = "query"
  /\ dc' = [dc EXCEPT !.pc = "commit",
                      !.matched = {p \in PostIds : Exists(p) /\ posts[p].category = dc.id},
                      !.ts = now]
  /\ UNCHANGED <<categories, posts, nextId, now, admin, ac, rd, ro, pm, last, ops>>

\* the documents after the staged writes: every matched post to 'general'
Reassigned(all, matched, ts) ==
  [p \in PostIds |->
     IF p \in matched
       THEN [all[p] EXCEPT !.category = "general", !.updatedAt = ts]
       ELSE all[p]]

\* transaction.update needs its document to exist, or the commit fails whole
CommitSucceeds == \A p \in dc.matched : Exists(p)

\* variant: the staged writes sent one by one, outside the transaction
DeleteCategoryCommitUnbatched ==
  /\ dc.pc = "commit"
  /\ posts' = Reassigned(posts, {p \in dc.matched : Exists(p)}, dc.ts)
  /\ categories' = ArrayRemove(categories, dc.target)
  /\ Done("deleteCategory", IF CommitSucceeds THEN "ok" ELSE "error")
  /\ dc' = Idle
  /\ UNCHANGED <<nextId, now, admin, ac, rd, ro, pm, ops>>

DeleteCategoryCommit ==
  /\ dc.pc = "commit"
  /\ IF CommitSucceeds
       THEN /\ posts' = Reassigned(posts, dc.matched, dc.ts)
            /\ categories' = ArrayRemove(categories, dc.target)
            /\ Done("deleteCategory", "ok")
       ELSE /\ UNCHANGED <<posts, categories>>
            /\ Done("deleteCategory", "error")
  /\ dc' = Idle
  /\ UNCHANGED <<nextId, now, admin, ac, rd, ro, pm, ops>>

\* variant: reorderCategories with only the second of its id-set checks
ReorderOutcomeNoMissingCheck(sortedCategories) ==
  IF ~IsAdminAuthenticated THEN "admin"
  ELSE IF \E id \in Ids(sortedCategories) : id \notin Ids(categories) THEN "id-unknown"
  ELSE "ok"

\* reorderCategories up to its getDoc and the two id-set checks
ReorderOutcome(sortedCategories) ==
  IF ~IsAdminAuthenticated THEN "admin"
  ELSE IF \E id \in Ids(categories) : id \notin Ids(sortedCategories) THEN "id-missing"
  ELSE IF \E id \in Ids(sortedCategories) : id \notin Ids(categories) THEN "id-unknown"
  ELSE "ok"

ReorderCategoriesRead(sortedCategories) ==
  /\ ro.pc = "idle"
  /\ Issue
  /\ Len(sortedCategories) <= MaxCats
  /\ IF ReorderOutcome(sortedCategories) = "ok"
       THEN /\ ro' = [pc |-> "write", sorted |-> sortedCategories, existing |-> categories]
            /\ UNCHANGED last
       ELSE /\ ro' = Idle
            /\ Done("reorderCategories", ReorderOutcome(sortedCategories))
  /\ UNCHANGED <<categories, posts, nextId, now, admin, ac, rd, dc, pm>>

\* updateDoc(settingsRef, {categories: sortedCategories})
ReorderCategoriesWrite ==
  /\ ro.pc = "write"
  /\ categories' = ro.sorted
  /\ ro' = Idle
  /\ dc' = Disturb(dc)
  /\ Done("reorderCategories", "ok")
  /\ UNCHANGED <<posts, nextId, now, admin, ac, rd, pm, ops>>

(***************************************************************************)
(* Post mutator.                                                           *)
(***************************************************************************)
\* a property of a JavaScript object: undefined when the object lacks it
Undefined == "undefined"
Field(object, f) == IF f \in DOMAIN object THEN object[f] ELSE Undefined

\* variant: createPost without the test of authorId
CreateOutcomeNoAuthorId(postData) ==
  IF \E f \in {"title", "content", "category", "author"} :
       Field(postData, f) \in {Undefined, ""}
    THEN "validation" ELSE "ok"

\* variant: the document takes the caller's counters when it has them
NewDocumentFromCaller(postData, created, updated) ==
  [title |-> postData.title, content |-> postData.content,
   category |-> postData.category, author |-> postData.author,
   authorId |-> postData.authorId,
   tags |-> IF "tags" \in DOMAIN postData THEN postData.tags ELSE <<>>,
   createdAt |-> created, updatedAt |-> updated,
   commentCount |-> IF "commentCount" \in DOMAIN postData THEN postData.commentCount ELSE 0,
   viewCount |-> IF "viewCount" \in DOMAIN postData THEN postData.viewCount ELSE 0]

\* !title || !content || !category || !author || !authorId
CreateOutcome(postData) ==
  IF \E f \in {"title", "content", "category", "author", "authorId"} :
       Field(postData, f) \in {Undefined, ""}
    THEN "validation" ELSE "ok"

\* the document addDoc stores: the six destructured fields and the four the
\* function sets; createdAt and updatedAt are two readings of the clock
NewDocument(postData, created, updated) ==
  [title |-> postData.title, content |-> postData.content,
   category |-> postData.category, author |-> postData.author,
   authorId |-> postData.authorId,
   tags |-> IF "tags" \in DOMAIN postData THEN postData.tags ELSE <<>>,
   createdAt |-> created, updatedAt |-> updated, commentCount |-> 0, viewCount |-> 0]

\* the clock may move on between the two calls of Timestamp.now()
CreatePost(postData) ==
  /\ Issue
  /\ IF CreateOutcome(postData) = "ok"
       THEN /\ nextId <= MaxPosts
            /\ \E updated \in {now, now + 1} :
                 /\ updated <= MaxTime
                 /\ posts' = [posts EXCEPT ![nextId] = NewDocument(postData, now, updated)]
                 /\ now' = updated
            /\ nextId' = nextId + 1
            /\ dc' = Disturb(dc)
       ELSE UNCHANGED <<posts, nextId, dc, now>>
  /\ Done("createPost", CreateOutcome(postData))
  /\ UNCHANGED <<categories, admin, ac, rd, ro, pm>>

\* the authorship check of updatePost, deletePost and movePost: made only
\* for a truthy userId, on the document getDoc returns
CheckOutcome(op, p, categoryId, userId) ==
  IF ~Truthy(userId) THEN "ok"
  ELSE IF ~Exists(p) THEN "notfound"
  ELSE IF posts[p].authorId # userId THEN "permission"
  ELSE IF op = "movePost" /\ posts[p].category = categoryId THEN "same-category"
  ELSE "ok"

\* updatePost's updateData: the patch, updatedAt set, date dropped, comments
\* renamed to commentCount, createdAt and id dropped
UpdateData(postData, ts) ==
  LET renamed == IF "comments" \in DOMAIN postData THEN {"commentCount"} ELSE {}
      fields  == ((DOMAIN postData \cup {"updatedAt"}) \cup renamed)
                   \ {"date", "comments", "createdAt", "id"}
  IN  [f \in fields |->
         IF f = "updatedAt" THEN ts
         ELSE IF f = "commentCount" /\ "comments" \in DOMAIN postData
           THEN postData["comments"]
         ELSE postData[f]]

\* updateDoc: the fields given replace or extend the document's
Merge(document, data) ==
  [f \in DOMAIN document \cup DOMAIN data |->
     IF f \in DOMAIN data THEN data[f] ELSE document[f]]

\* a post call up to its write: the check, then the write is under way
\* the callers know the ids the store has given out; addDoc never gives a
\* new document an id a caller has used before
PostCallStart(op, p, categoryId, userId, data) ==
  /\ pm.pc = "idle"
  /\ p < nextId
  /\ Issue
  /\ IF CheckOutcome(op, p, categoryId, userId) = "ok"
       THEN /\ pm' = [pc |-> "write", op |-> op, post |-> p, userId |-> userId,
                      data |-> data]
            /\ UNCHANGED last
       ELSE /\ pm' = Idle
            /\ Done(op, CheckOutcome(op, p, categoryId, userId))
  /\ UNCHANGED <<categories, posts, nextId, now, admin, ac, rd, dc, ro>>

UpdatePostStart(p, postData, userId) ==
  PostCallStart("updatePost", p, "", userId, UpdateData(postData, now))

DeletePostStart(p, userId) ==
  PostCallStart("deletePost", p, "", userId, <<>>)

MovePostStart(p, categoryId, userId) ==
  PostCallStart("movePost", p, categoryId, userId,
                [category |-> categoryId, updatedAt |-> now])

\* variant: the write of updatePost and movePost creates a missing document
UpdateDocWriteUpsert ==
  /\ pm.pc = "write"
  /\ pm.op \in {"updatePost", "movePost"}
  /\ posts' = [posts EXCEPT ![pm.post] = IF Exists(pm.post) THEN Merge(@, pm.data)
                                                            ELSE pm.data]
  /\ dc' = Disturb(dc)
  /\ Done(pm.op, "ok")
  /\ pm' = Idle
  /\ UNCHANGED <<categories, nextId, now, admin, ac, rd, ro, ops>>

\* updateDoc of updatePost and movePost: fails on a document that is gone
UpdateDocWrite ==
  /\ pm.pc = "write"
  /\ pm.op \in {"updatePost", "movePost"}
  /\ IF Exists(pm.post)
       THEN /\ posts' = [posts EXCEPT ![pm.post] = Merge(@, pm.data)]
            /\ dc' = Disturb(dc)
            /\ Done(pm.op, "ok")
       ELSE /\ UNCHANGED <<posts, dc>>
            /\ Done(pm.op, "notfound")
  /\ pm' = Idle
  /\ UNCHANGED <<categories, nextId, now, admin, ac, rd, ro, ops>>

\* deleteDoc of deletePost: succeeds whether or not the document is there
DeleteDocWrite ==
  /\ pm.pc = "write"
  /\ pm.op = "deletePost"
  /\ posts' = [posts EXCEPT ![pm.post] = NoPost]
  /\ dc' = Disturb(dc)
  /\ Done("deletePost", "ok")
  /\ pm' = Idle
  /\ UNCHANGED <<categories, nextId, now, admin, ac, rd, ro, ops>>

(***************************************************************************)
(* Retrying reader: fetchPosts, fetchPostsByCategory, fetchPostsByTag and  *)
(* fetchPostById.  An attempt is a query sent to the store; the store      *)
(* answers it with the documents or rejects it with an error.              *)
(***************************************************************************)
MAX_RETRY_COUNT == 3

\* variant: the backoff one step ahead
DelayDoubled(attempts) == 2 ^ attempts * 1000

\* delay(attempts): the duration handed to setTimeout, in milliseconds
Delay(attempts) == 2 ^ (attempts - 1) * 1000

ReadOps == {"fetchPosts", "fetchPostsByCategory", "fetchPostsByTag", "fetchPostById"}

\* the arguments the callers give: a category ('' and 'all' ask for every
\* post), a tag, a document id
ReadArgs(op) ==
  IF op = "fetchPosts" THEN {""}
  ELSE IF op = "fetchPostsByCategory" THEN {"", "all", "a"}
  ELSE IF op = "fetchPostsByTag" THEN {"t"}
  ELSE PostIds

\* the function whose retry loop runs: fetchPostsByCategory hands a missing
\* category and 'all' over to fetchPosts
Loop(op, arg) ==
  IF op = "fetchPostsByCategory" /\ arg \in {"", "all"} THEN "fetchPosts" ELSE op

IndexUrl == "https://console.firebase.google.com/indexes"

\* what the store rejects an attempt with: its code, whether its message
\* holds 'requires an index', and the console link in the message, if any
StoreErrors ==
  { [code |-> "unavailable", mentionsIndex |-> FALSE, url |-> ""],
    [code |-> "failed-precondition", mentionsIndex |-> TRUE, url |-> IndexUrl],
    [code |-> "failed-precondition", mentionsIndex |-> TRUE, url |-> ""],
    [code |-> "failed-precondition", mentionsIndex |-> FALSE, url |-> ""] }

\* the test of the two catch blocks that handle index errors
IndexError(error) == error.code = "failed-precondition" \/ error.mentionsIndex

\* the loops whose catch block has that test
IndexLoops == {"fetchPostsByCategory", "fetchPostsByTag"}

\* variant: the attempts are counted before the index test
CaughtCountFirst(loop, attempts, error) ==
  IF attempts >= MAX_RETRY_COUNT THEN "generic"
  ELSE IF loop \in IndexLoops /\ IndexError(error) THEN "index"
  ELSE "retry"

\* the catch block of a loop: throw the index error, throw the generic
\* error, or sleep and go round again
Caught(loop, attempts, error) ==
  IF loop \in IndexLoops /\ IndexError(error) THEN "index"
  ELSE IF attempts >= MAX_RETRY_COUNT THEN "generic"
  ELSE "retry"

\* mapDocToPost: the document's id and its fields, absent ones defaulted
\* 24 * 60 * 60 * 1000: the milliseconds of a day
DAY_MS == 24 * 60 * 60 * 1000

\* variant: a post of exactly one day still counts as new
IsNewInclusive(data, nowMillis) ==
  IF "createdAt" \in DOMAIN data THEN nowMillis - data.createdAt <= DAY_MS ELSE FALSE

\* data.createdAt ? (Timestamp.now().toMillis() - data.createdAt.toMillis())
\*                  < 24 * 60 * 60 * 1000 : false
IsNew(data, nowMillis) ==
  IF "createdAt" \in DOMAIN data THEN nowMillis - data.createdAt < DAY_MS ELSE FALSE

MapDocToPost(p, data) ==
  [id |-> p,
   title |-> IF data.title = "" THEN "untitled" ELSE data.title,
   content |-> data.content,
   category |-> IF data.category = "" THEN "general" ELSE data.category,
   author |-> data.author,
   authorId |-> data.authorId,
   tags |-> data.tags,
   createdAt |-> IF "createdAt" \in DOMAIN data THEN data.createdAt ELSE now,
   updatedAt |-> IF "updatedAt" \in DOMAIN data THEN data.updatedAt ELSE now,
   commentCount |-> data.commentCount,
   viewCount |-> data.viewCount,
   isNew |-> IsNew(data, now)]

ConvertToUIPost(post) ==
  [id |-> post.id, title |-> post.title, content |-> post.content,
   category |-> post.category, author |-> post.author, authorId |-> post.authorId,
   date |-> post.createdAt, comments |-> post.commentCount, isNew |-> post.isNew,
   tags |-> post.tags]

\* the documents the store answers a loop's query with
Matching(loop, arg) ==
  IF loop = "fetchPosts" THEN {p \in PostIds : Exists(p)}
  ELSE IF loop = "fetchPostsByCategory"
    THEN {p \in PostIds : Exists(p) /\ posts[p].category = arg}
  ELSE IF loop = "fetchPostsByTag"
    THEN {p \in PostIds : Exists(p) /\ \E i \in DOMAIN posts[p].tags : posts[p].tags[i] = arg}
  ELSE {p \in PostIds : Exists(p) /\ p = arg}

\* what a successful attempt returns, as the set of the posts in it
Fetched(loop, arg) ==
  {ConvertToUIPost(MapDocToPost(p, posts[p])) : p \in Matching(loop, arg)}

ReadCall(op, arg) ==
  /\ rd.pc \in {"idle", "done"}
  /\ Issue
  /\ rd' = [pc |-> "loop", op |-> op, arg |-> arg, loop |-> Loop(op, arg),
            attempts |-> 0, failed |-> <<>>, sleeps |-> <<>>,
            outcome |-> "pending", result |-> {}, url |-> ""]
  /\ UNCHANGED <<categories, posts, nextId, now, admin, ac, dc, ro, pm, last>>

\* while (attempts < MAX_RETRY_COUNT) { attempts++; the query is sent
LoopTest ==
  /\ rd.pc = "loop"
  /\ IF rd.attempts < MAX_RETRY_COUNT
       THEN /\ rd' = [rd EXCEPT !.pc = "await", !.attempts = @ + 1]
            /\ UNCHANGED last
       ELSE /\ rd' = [rd EXCEPT !.pc = "done", !.outcome = "generic"]
            /\ Done(rd.op, "generic")
  /\ UNCHANGED <<categories, posts, nextId, now, admin, ac, dc, ro, pm, ops>>

\* variant: an absent document is not returned as null, the loop goes round
ResolveAbsentLoops ==
  /\ rd.pc = "await"
  /\ IF rd.loop = "fetchPostById" /\ Matching(rd.loop, rd.arg) = {}
       THEN /\ rd' = [rd EXCEPT !.pc = "loop"]
            /\ UNCHANGED last
       ELSE /\ rd' = [rd EXCEPT !.pc = "done", !.outcome = "ok",
                                !.result = Fetched(rd.loop, rd.arg)]
            /\ Done(rd.op, "ok")
  /\ UNCHANGED <<categories, posts, nextId, now, admin, ac, dc, ro, pm, ops>>

\* the store answers the attempt; fetchPostById returns null for no document
Resolve ==
  /\ rd.pc = "await"
  /\ LET outcome == IF rd.loop = "fetchPostById" /\ Matching(rd.loop, rd.arg) = {}
                      THEN "null" ELSE "ok"
     IN  /\ rd' = [rd EXCEPT !.pc = "done", !.outcome = outcome,
                             !.result = Fetched(rd.loop, rd.arg)]
         /\ Done(rd.op, outcome)
  /\ UNCHANGED <<categories, posts, nextId, now, admin, ac, dc, ro, pm, ops>>

\* the store rejects the attempt: the catch block
Reject(error) ==
  /\ rd.pc = "await"
  /\ LET c == Caught(rd.loop, rd.attempts, error) IN
       IF c = "retry"
         THEN /\ rd' = [rd EXCEPT !.pc = "sleep", !.failed = Append(@, error),
                                  !.sleeps = Append(@, Delay(rd.attempts))]
              /\ UNCHANGED last
         ELSE /\ rd' = [rd EXCEPT !.pc = "done", !.failed = Append(@, error),
                                  !.outcome = c,
                                  !.url = IF c = "index" THEN error.url ELSE ""]
              /\ Done(rd.op, c)
  /\ UNCHANGED <<categories, posts, nextId, now, admin, ac, dc, ro, pm, ops>>

\* the timer of delay() fires
Wake ==
  /\ rd.pc = "sleep"
  /\ rd' = [rd EXCEPT !.pc = "loop"]
  /\ UNCHANGED <<categories, posts, nextId, now, admin, ac, dc, ro, pm, last, ops>>

(***************************************************************************)
(* The systems checked.  Any caller may issue any call at any time.        *)
(*   SpecCategories: the category engine alone, every input               *)
(*   SpecPosts:      the post mutator alone, every input                  *)
(*   Spec:           both on the one store, each call with a few inputs   *)
(*   SpecRead:       the reader beside createPost and deletePost          *)
(***************************************************************************)
CategoryCall ==
  \/ \E name \in AddNames : AddCategory(name)
  \/ \E id \in CategoryArgs, name \in NewNames : UpdateCategory(id, name)
  \/ \E id \in CategoryArgs : DeleteCategoryRead(id)
  \/ \E sorted \in Candidates(categories) : ReorderCategoriesRead(sorted)

CategoryStep ==
  \/ DeleteCategoryQuery
  \/ DeleteCategoryCommit
  \/ ReorderCategoriesWrite

PostCall ==
  \/ \E postData \in NewPosts : CreatePost(postData)
  \/ \E p \in PostIds, postData \in Patches, u \in ActingUsers :
       UpdatePostStart(p, postData, u)
  \/ \E p \in PostIds, u \in ActingUsers : DeletePostStart(p, u)
  \/ \E p \in PostIds, c \in PostCategories, u \in ActingUsers :
       MovePostStart(p, c, u)

PostStep ==
  \/ UpdateDocWrite
  \/ DeleteDocWrite

NextCategories == CategoryCall \/ CategoryStep

SpecCategories == Init /\ [][NextCategories]_vars

\* deletePost(postId) of a second session, with no userId: the ownership
\* check is skipped and the call is one deleteDoc
DeletePostByOther(p) ==
  /\ p < nextId
  /\ Issue
  /\ posts' = [posts EXCEPT ![p] = NoPost]
  /\ dc' = Disturb(dc)
  /\ Done("deletePost", "ok")
  /\ UNCHANGED <<categories, nextId, now, admin, ac, rd, ro, pm>>

NextPosts == Tick \/ PostCall \/ PostStep

\* the administrator is signed in
InitAdmin == Init /\ admin = TRUE

SpecPosts == InitAdmin /\ [][NextPosts]_vars

\* the lists given to reorderCategories in Spec: the last two entries
\* exchanged, and the last entry repeated under the first entry's name
FewCandidates(list) ==
  { Swap(list, Len(list) - 1, Len(list)),
    Append(list, Cat(list[Len(list)].id, list[1].name)) }

Next ==
  \/ Tick
  \/ AddCategory(<<"a">>)
  \/ UpdateCategory("a", "A")
  \/ DeleteCategoryRead("a")
  \/ \E sorted \in FewCandidates(categories) : ReorderCategoriesRead(sorted)
  \/ CategoryStep
  \/ \E postData \in NewPosts : CreatePost(postData)
  \/ \E p \in PostIds, u \in {NoUid, "u1"} :
       UpdatePostStart(p, [category |-> "nope"], u)
  \/ \E p \in PostIds : DeletePostStart(p, NoUid)
  \/ \E p \in PostIds : MovePostStart(p, "a", NoUid)
  \/ PostStep

Spec == InitAdmin /\ [][Next]_vars

\* the category module called by a session that may not be signed in as
\* administrator, on a store that holds posts
NextGate ==
  \/ \E c \in {"general", "a"} :
       CreatePost([title |-> "t1", content |-> "c", category |-> c,
                   author |-> "n", authorId |-> "u1"])
  \/ FetchCategories
  \/ \E name \in AddNames : AddCategory(name)
  \/ \E id \in CategoryArgs, name \in NewNames : UpdateCategory(id, name)
  \/ \E id \in CategoryArgs : DeleteCategoryRead(id)
  \/ \E sorted \in FewCandidates(categories) : ReorderCategoriesRead(sorted)
  \/ CategoryStep

SpecGate == Init /\ [][NextGate]_vars

\* a post's writers beside a second session that deletes it
NextDelete ==
  \/ Tick
  \/ \E c \in {"general", "a"} :
       CreatePost([title |-> "t1", content |-> "c", category |-> c,
                   author |-> "n", authorId |-> "u1"])
  \/ AddCategory(<<"a">>)
  \/ \E p \in PostIds, u \in {NoUid, "u1"} :
       UpdatePostStart(p, [title |-> "t2"], u)
  \/ \E p \in PostIds, u \in {NoUid, "u1"} : MovePostStart(p, "a", u)
  \/ \E p \in PostIds : DeletePostStart(p, "u1")
  \/ \E p \in PostIds : DeletePostByOther(p)
  \/ DeleteCategoryRead("a")
  \/ DeleteCategoryQuery
  \/ DeleteCategoryCommit
  \/ UpdateDocWrite
  \/ DeleteDocWrite

SpecDelete == InitAdmin /\ [][NextDelete]_vars

\* addCategory calls of two sessions, interleaved step by step
NextAddRace ==
  \/ \E c \in AddCallers : \E name \in RaceNames : AddStart(c, name)
  \/ \E c \in AddCallers : TransactionGet(c)
  \/ \E c \in AddCallers : TransactionCommit(c)

SpecAddRace == Init /\ [][NextAddRace]_vars

\* one addCategory call on the initial list, the name typed freely
NextAdd == \E name \in TypedNames : Len(categories) = 3 /\ AddCategory(name)

SpecAdd == Init /\ [][NextAdd]_vars

\* the reader beside callers that create and delete posts
ReadStep == LoopTest \/ Resolve \/ (\E error \in StoreErrors : Reject(error)) \/ Wake

NextRead ==
  \/ \E op \in ReadOps : \E arg \in ReadArgs(op) : ReadCall(op, arg)
  \/ LoopTest
  \/ Resolve
  \/ \E error \in StoreErrors : Reject(error)
  \/ Wake
  \/ \E c \in {"general", "a"} :
       CreatePost([title |-> "t1", content |-> "c", category |-> c,
                   author |-> "n", authorId |-> "u1"])
  \/ \E p \in PostIds : DeletePostStart(p, NoUid)
  \/ DeleteDocWrite

\* the documents of a store that is a day old: written by createPost at a
\* time up to MaxCreated, or put into the collection without createdAt
StoredDocuments ==
  { NewDocument([title |-> "t1", content |-> "c", category |-> "general",
                 author |-> "n", authorId |-> "u1"], c, c) : c \in 0..MaxCreated }
  \cup
  { [title |-> "t1", content |-> "c", category |-> "general", author |-> "n",
     authorId |-> "u1", tags |-> <<>>, commentCount |-> 0, viewCount |-> 0] }

\* the readers' clock in milliseconds: at the creation, and within MaxSkew
\* of one day after it
Clocks ==
  (0..MaxCreated) \cup ((DAY_MS - MaxSkew)..(DAY_MS + MaxCreated + MaxSkew))

InitIsNew ==
  /\ categories = <<Cat("general", "General"), Cat("tech", "Tech"),
                    Cat("questions", "Questions")>>
  /\ \E data \in StoredDocuments :
       posts = [p \in PostIds |-> IF p = 1 THEN data ELSE NoPost]
  /\ nextId = 2
  /\ now \in Clocks
  /\ admin = TRUE
  /\ ac = [c \in AddCallers |-> Idle]
  /\ dc = Idle
  /\ ro = Idle
  /\ pm = Idle
  /\ rd = Idle
  /\ last = [op |-> "none", outcome |-> "none"]
  /\ ops = 0

NextIsNew ==
  \/ \E op \in ReadOps : \E arg \in ReadArgs(op) : ReadCall(op, arg)
  \/ LoopTest
  \/ Resolve
  \/ \E error \in StoreErrors : Reject(error)
  \/ Wake

SpecIsNew == InitIsNew /\ [][NextIsNew]_vars

\* every query sent is answered or rejected, and every timer fires
SpecRead == InitAdmin /\ [][NextRead]_vars /\ WF_vars(ReadStep)

(***************************************************************************)
(* Properties.                                                             *)
(***************************************************************************)
NoCallInFlight == dc.pc = "idle" /\ ro.pc = "idle" /\ pm.pc = "idle"

\* the step in which deleteCategory's transaction commits or fails
DeleteCommitStep == dc.pc = "commit" /\ dc'.pc = "idle"

\* the step in which reorderCategories' updateDoc lands
ReorderWriteStep == ro.pc = "write" /\ ro'.pc = "idle"

Count(list, e) == Cardinality({i \in 1..Len(list) : list[i] = e})

IsPermutation(s, t) ==
  /\ Len(s) = Len(t)
  /\ \A e \in Entries(s) \cup Entries(t) : Count(s, e) = Count(t, e)

UniqueIds(list) ==
  \A i \in 1..Len(list), j \in 1..Len(list) : list[i].id = list[j].id => i = j

UniqueNames(list) ==
  \A i \in 1..Len(list), j \in 1..Len(list) : list[i].name = list[j].name => i = j

IdCount(list, id) == Cardinality({i \in 1..Len(list) : list[i].id = id})

\* C1: whenever no call is in flight, every stored post's category is the id
\* of an entry of the stored category list.
C1_ReferentialIntegrity ==
  NoCallInFlight =>
    \A p \in PostIds : Exists(p) => posts[p].category \in Ids(categories)

\* C2: a deleteCategory(id) that ran with no other writer and succeeded has
\* moved every post of the category to 'general' with the call's timestamp,
\* left no entry with that id in the list, kept the other entries in their
\* order, and left every other post as it was.
C2_DeleteCategoryEffect ==
  [][(DeleteCommitStep /\ dc.quiet /\ last'.outcome = "ok") =>
       /\ \A p \in PostIds :
            IF Exists(p) /\ posts[p].category = dc.id
              THEN posts'[p] = [posts[p] EXCEPT !.category = "general",
                                                !.updatedAt = dc.ts]
              ELSE posts'[p] = posts[p]
       /\ dc.id \notin Ids(categories')
       /\ categories' = SelectSeq(categories, LAMBDA e : e.id # dc.id)]_vars

\* C3: deleteCategory is all-or-nothing.  Its commit never removes the entry
\* while a matched post still references the category; a commit that meets a
\* matched post that is gone fails; and a failed call leaves the posts and
\* the category list exactly as they were.
C3_AllOrNothing ==
  [][DeleteCommitStep =>
       /\ (dc.target \in Entries(categories) /\ dc.target \notin Entries(categories'))
            => \A p \in dc.matched :
                 posts'[p] # NoPost /\ posts'[p].category = "general"
       /\ (\E p \in dc.matched : ~Exists(p)) => last'.outcome # "ok"
       /\ last'.outcome # "ok" => (posts' = posts /\ categories' = categories)]_vars

\* C3 witness: a deleteCategory whose transaction failed, a matched post
\* having been hard-deleted between the query and the commit.
C3_Witness == last = [op |-> "deleteCategory", outcome |-> "error"]

\* C4: when deleteCategory(c) removes the listed category c, no post is left
\* in c, the posts written into c after its query included.
C4_NoOrphanAfterDelete ==
  [][(DeleteCommitStep /\ dc.id \in Ids(categories) /\ dc.id \notin Ids(categories')) =>
       \A p \in PostIds : posts'[p] # NoPost => posts'[p].category # dc.id]_vars

\* C5: the list a successful reorderCategories stores is a permutation of
\* the list stored before the call: same length, each entry exactly once.
C5_ReorderIsPermutation ==
  [][ReorderWriteStep => IsPermutation(categories', ro.existing)]_vars

\* C6: when another category mutation committed between reorderCategories'
\* read and its write, the list stored by the write still holds exactly the
\* entries that mutation left (the added one, the new name, not the deleted).
C6_ReorderKeepsCommitted ==
  [][(/\ ReorderWriteStep
      /\ IsPermutation(ro.sorted, ro.existing)
      /\ categories # ro.existing) =>
       Entries(categories') = Entries(categories)]_vars

\* C7: updatePost, deletePost and movePost given a userId (the empty string
\* included) that differs from the post's stored authorId never get past the
\* ownership check to their write.
C7_OwnershipGate ==
  [][~(/\ pm.pc = "idle"
       /\ pm'.pc = "write"
       /\ pm'.userId # NoUid
       /\ Exists(pm'.post)
       /\ posts[pm'.post].authorId # pm'.userId)]_vars

\* C8: no step changes an existing post's authorId or createdAt, or stores
\* an id field in it.
C8_ImmutableFields ==
  [][\A p \in PostIds :
       (Exists(p) /\ posts'[p] # NoPost) =>
         /\ posts'[p].authorId = posts[p].authorId
         /\ posts'[p].createdAt = posts[p].createdAt
         /\ "id" \notin DOMAIN posts'[p]]_vars

\* C9: no two entries of the stored category list have the same name.
C9_UniqueNames == UniqueNames(categories)

\* C10: no two entries of the stored category list share an id, and a step
\* that keeps the length of the list keeps how often each id occurs in it.
C10_UniqueStableIds ==
  [][/\ UniqueIds(categories')
     /\ Len(categories') = Len(categories) =>
          \A id \in Ids(categories) \cup Ids(categories') :
            IdCount(categories', id) = IdCount(categories, id)]_vars

\* C11: updateCategory and deleteCategory called with a system id fail with
\* the system-category validation error (thrown before the first store call;
\* the admin error instead when the caller is not authenticated), start no
\* read, query or transaction, and leave the list and every post unchanged.
C11_SystemGuard ==
  [][\A id \in SystemIds :
       /\ \A name \in NewNames :
            UpdateCategory(id, name) =>
              /\ last' = [op |-> "updateCategory",
                          outcome |-> IF admin THEN "system-category" ELSE "admin"]
              /\ last'.outcome \in LocalValidation \cup {"admin"}
              /\ categories' = categories /\ posts' = posts /\ dc' = dc
       /\ DeleteCategoryRead(id) =>
            /\ last' = [op |-> "deleteCategory",
                        outcome |-> IF admin THEN "system-category" ELSE "admin"]
            /\ dc'.pc = "idle"
            /\ categories' = categories /\ posts' = posts]_vars

C11_Witness ==
  /\ last.outcome = "system-category"
  /\ last.op \in {"updateCategory", "deleteCategory"}

\* C12: the entries with ids 'general', 'tech', 'questions' stay in the stored
\* list in the relative order of the initial list.
C12_SystemOrder ==
  /\ FindIndex(categories, "general") < FindIndex(categories, "tech")
  /\ FindIndex(categories, "tech") < FindIndex(categories, "questions")

\* C13: reorderCategories accepts no candidate whose set of ids differs from
\* the stored one, and a call it rejects ends with a validation error (the
\* admin error when the caller is not authenticated), writes nothing and
\* leaves the stored list as it was.
ReorderRejectStep ==
  /\ ro.pc = "idle" /\ ro'.pc = "idle"
  /\ ops' = ops + 1 /\ last'.op = "reorderCategories"
  /\ dc' = dc /\ pm' = pm

C13_ReorderRejection ==
  [][/\ (ro.pc = "idle" /\ ro'.pc = "write") => Ids(ro'.sorted) = Ids(categories)
     /\ ReorderRejectStep =>
          /\ last'.outcome \in IF admin THEN {"id-missing", "id-unknown"} ELSE {"admin"}
          /\ categories' = categories]_vars

C13_Witness ==
  /\ last.op = "reorderCategories"
  /\ last.outcome \in {"id-missing", "id-unknown"}
  /\ Len(categories) > 3

\* C14: when deleteCategory(id) returns success on a list without repeated
\* ids, no entry with that id is left in the stored list.
C14_DeleteSuccessTruthful ==
  [][(DeleteCommitStep /\ last'.outcome = "ok" /\ UniqueIds(categories)) =>
       dc.id \notin Ids(categories')]_vars

\* C19: movePost to the category the post is already in never gets to its
\* write, with or without an acting user.
C19_MoveToSameCategory ==
  [][~(/\ pm.pc = "idle"
       /\ pm'.pc = "write"
       /\ pm'.op = "movePost"
       /\ Exists(pm'.post)
       /\ posts[pm'.post].category = pm'.data.category)]_vars

\* C20: addCategory given a name whose slug is empty, or whose slug is the id
\* of a stored entry, or that is the name of a stored entry, fails with a
\* validation error (the admin error when the caller is not authenticated)
\* and leaves the stored list as it was.
AddRejected(name) ==
  \/ Str(Slug(name)) = ""
  \/ Str(Slug(name)) \in Ids(categories)
  \/ Str(name) \in Names(categories)

C20_AddRejection ==
  [][\A name \in AddNames :
       (last'.op = "addCategory" /\ ops' = ops + 1
          /\ AddRejected(name) /\ AddCategory(name)) =>
         /\ last'.op = "addCategory"
         /\ last'.outcome \in IF admin THEN {"no-slug", "id-in-use", "name-in-use"}
                                        ELSE {"admin"}
         /\ categories' = categories]_vars

\* a name refused although its slug is free
C20_Witness ==
  /\ last = [op |-> "addCategory", outcome |-> "name-in-use"]
  /\ Len(categories) > 3

\* the step in which the store rejects the attempt in flight
RejectStep == rd.pc = "await" /\ rd'.pc # "await" /\ Len(rd'.failed) > Len(rd.failed)

\* the error of the attempt that failed last
LastError(call) == call.failed[Len(call.failed)]

\* C15: a read call makes at most 3 attempts; when it returns a result it
\* made no attempt after the one that succeeded; when 3 attempts failed, none
\* of them with a missing-index report, it ends with the generic error.
C15_BoundedRetry ==
  rd.pc # "idle" =>
    /\ rd.attempts <= 3
    /\ Len(rd.failed) <= rd.attempts
    /\ (rd.pc = "done" /\ rd.outcome \in {"ok", "null"}) =>
         rd.attempts = Len(rd.failed) + 1
    /\ (/\ rd.pc = "done"
        /\ Len(rd.failed) = 3
        /\ \A n \in 1..3 : ~rd.failed[n].mentionsIndex) =>
         rd.outcome = "generic"

\* C16 as stated: in each of the four operations an attempt rejected with a
\* missing-index report ends the call at once with the index error, the
\* link of the report in it, and without a sleep.
C16_IndexNeverRetried ==
  [][(RejectStep /\ LastError(rd').mentionsIndex) =>
       /\ rd'.pc = "done"
       /\ rd'.outcome = "index"
       /\ rd'.url = LastError(rd').url
       /\ rd'.sleeps = rd.sleeps]_vars

\* C16 amended: in fetchPostsByCategory (given a category other than '' and
\* 'all') and fetchPostsByTag an attempt rejected with a missing-index report
\* ends the call at once with the index error, the link of the report in it,
\* and without a sleep, on whichever attempt.
C16_IndexNotRetriedInQueries ==
  [][(RejectStep /\ rd.loop \in IndexLoops /\ LastError(rd').mentionsIndex) =>
       /\ rd'.pc = "done"
       /\ rd'.outcome = "index"
       /\ rd'.url = LastError(rd').url
       /\ rd'.sleeps = rd.sleeps]_vars

\* the index error on the third attempt, with the link
C16_Witness ==
  /\ rd.pc = "done" /\ rd.outcome = "index"
  /\ rd.attempts = 3 /\ rd.url = IndexUrl
  /\ LastError(rd).mentionsIndex

\* C17: in fetchPostsByCategory and fetchPostsByTag an attempt before the
\* third that is rejected with anything but a missing-index report is
\* followed by a sleep and another attempt.
C17_OthersAreRetried ==
  [][(/\ RejectStep
      /\ rd.loop \in IndexLoops
      /\ ~LastError(rd').mentionsIndex
      /\ rd.attempts < 3) =>
       rd'.pc = "sleep"]_vars

\* C18: the n-th sleep of a call lasts 2^(n-1) seconds, and a call has slept
\* once for each failed attempt that another attempt follows: not before the
\* first attempt, not after the attempt that ended the call.
C18_BackoffSchedule ==
  rd.pc # "idle" =>
    /\ Len(rd.sleeps) <= 2
    /\ rd.sleeps = SubSeq(<<1000, 2000>>, 1, Len(rd.sleeps))
    /\ Len(rd.sleeps) = IF rd.pc \in {"await", "done"} THEN rd.attempts - 1
                                                       ELSE rd.attempts

\* failed twice, answered on the third attempt
C18_Witness ==
  /\ rd.pc = "done" /\ rd.outcome = "ok"
  /\ rd.attempts = 3 /\ rd.sleeps = <<1000, 2000>>

\* the step in which createPost stores a document
CreateStep == nextId' = nextId + 1

\* C21 as stated: the document createPost stores has commentCount 0,
\* viewCount 0, createdAt and updatedAt both equal to the time of creation,
\* and the id the store gave it, whatever the caller put in the input.
C21_ServerAssignedFields ==
  [][CreateStep =>
       /\ posts[nextId] = NoPost
       /\ "id" \notin DOMAIN posts'[nextId]
       /\ posts'[nextId].commentCount = 0
       /\ posts'[nextId].viewCount = 0
       /\ posts'[nextId].createdAt = now
       /\ posts'[nextId].updatedAt = posts'[nextId].createdAt]_vars

\* C21 amended: the document createPost stores has commentCount 0, viewCount
\* 0, the id the store gave it, and createdAt and updatedAt read from the
\* clock one after the other during the call (createdAt <= updatedAt),
\* whatever the caller put in the input.
C21_ServerAssignedInOrder ==
  [][CreateStep =>
       /\ posts[nextId] = NoPost
       /\ "id" \notin DOMAIN posts'[nextId]
       /\ posts'[nextId].commentCount = 0
       /\ posts'[nextId].viewCount = 0
       /\ posts'[nextId].createdAt = now
       /\ posts'[nextId].updatedAt = now'
       /\ posts'[nextId].createdAt <= posts'[nextId].updatedAt]_vars

\* stored from the input that carried its own createdAt, counters and id
C21_Witness ==
  /\ last = [op |-> "createPost", outcome |-> "ok"]
  /\ \E p \in PostIds : Exists(p) /\ posts[p].tags = <<"t">> /\ posts[p].commentCount = 0

C23_TimestampsMonotone ==
  [][\A p \in PostIds :
       posts'[p] # NoPost =>
         /\ posts'[p].updatedAt >= posts'[p].createdAt
         /\ Exists(p) => posts'[p].updatedAt >= posts[p].updatedAt]_vars

\* C24: updateCategory(id, newName) with a non-system id, called by an
\* admin: no entry with that id, it fails with 'not found' and the list stays;
\* an entry with another id has that name, it fails and the list stays;
\* otherwise it succeeds and the list differs only in the name of the entry
\* with that id.
C24_RenameFrame ==
  [][\A id \in CategoryArgs \ SystemIds : \A name \in NewNames :
       (/\ admin /\ ops' = ops + 1 /\ last'.op = "updateCategory"
        /\ UpdateCategory(id, name)) =>
         IF id \notin Ids(categories)
           THEN last'.outcome = "notfound" /\ categories' = categories
         ELSE IF \E i \in 1..Len(categories) :
                   categories[i].id # id /\ categories[i].name = name
           THEN last'.outcome # "ok" /\ categories' = categories
         ELSE /\ last'.outcome = "ok"
              /\ Len(categories') = Len(categories)
              /\ \A i \in 1..Len(categories) :
                   /\ categories'[i].id = categories[i].id
                   /\ categories'[i].name =
                        IF i = FindIndex(categories, id) THEN name
                        ELSE categories[i].name]_vars

\* the slug as the claim words it: each maximal run of characters outside
\* [a-z0-9] becomes one hyphen, then the hyphens at both ends go
RECURSIVE SkipRun(_)
SkipRun(s) == IF s # <<>> /\ Head(s) \notin SlugChars THEN SkipRun(Tail(s)) ELSE s

RECURSIVE RunsToHyphens(_)
RunsToHyphens(s) ==
  IF s = <<>> THEN <<>>
  ELSE IF Head(s) \in SlugChars THEN <<Head(s)>> \o RunsToHyphens(Tail(s))
  ELSE <<"-">> \o RunsToHyphens(SkipRun(s))

RECURSIVE StripHyphens(_)
StripHyphens(s) ==
  IF s # <<>> /\ Head(s) = "-" THEN StripHyphens(Tail(s))
  ELSE IF s # <<>> /\ s[Len(s)] = "-" THEN StripHyphens(SubSeq(s, 1, Len(s) - 1))
  ELSE s

SlugByRuns(name) == StripHyphens(RunsToHyphens(Trim(ToLowerCase(name))))

\* C25: a successful addCategory(name) returns the slug of the name as the
\* claim words it, and the stored list afterwards is the list before with
\* the entry {id, name} appended.
C25_AddEffect ==
  [][\A name \in TypedNames :
       (/\ last'.op = "addCategory" /\ last'.outcome = "ok" /\ ops' = ops + 1
        /\ categories'[Len(categories')].name = Str(name)
        /\ AddCategory(name)) =>
         /\ last'.returned = Str(SlugByRuns(name))
         /\ categories' = Append(categories, Cat(last'.returned, Str(name)))]_vars

\* a name with a run of two characters outside [a-z0-9]
C25_Witness ==
  /\ last = [op |-> "addCategory", outcome |-> "ok", returned |-> "a-b"]
  /\ categories = <<Cat("general", "General"), Cat("tech", "Tech"),
                    Cat("questions", "Questions"), Cat("a-b", "a- B")>>

\* C26: the attempt of fetchPostById that finds no document ends the call
\* with null, with no error, no further attempt and no sleep; the call ends
\* with an error only after MAX_RETRY_COUNT failed attempts.
C26_AbsentIsNull ==
  [][/\ (/\ rd.pc = "await" /\ rd.loop = "fetchPostById"
          /\ rd'.pc # "await" /\ Len(rd'.failed) = Len(rd.failed)
          /\ ~Exists(rd.arg)) =>
            /\ rd'.pc = "done" /\ rd'.outcome = "null" /\ rd'.result = {}
            /\ rd'.attempts = rd.attempts /\ rd'.sleeps = rd.sleeps
            /\ last' = [op |-> "fetchPostById", outcome |-> "null"]
     /\ (/\ rd.pc # "done" /\ rd'.pc = "done" /\ rd'.loop = "fetchPostById"
          /\ rd'.outcome \notin {"ok", "null"}) =>
            Len(rd'.failed) = MAX_RETRY_COUNT]_vars

\* null on the second attempt, after one failed attempt and one sleep
C26_Witness ==
  /\ rd.pc = "done" /\ rd.loop = "fetchPostById" /\ rd.outcome = "null"
  /\ rd.attempts = 2 /\ Len(rd.failed) = 1 /\ Len(rd.sleeps) = 1

\* C27: a post read from the store has isNew = TRUE exactly when the
\* reader's clock minus createdAt is less than 86,400,000 ms (FALSE at
\* exactly one day and beyond), and isNew = FALSE when the document has no
\* createdAt.
C27_IsNewBoundary ==
  [][(rd.pc = "await" /\ rd'.pc = "done" /\ rd'.outcome = "ok") =>
       \A post \in rd'.result :
         LET data == posts[post.id] IN
           /\ "createdAt" \in DOMAIN data =>
                (post.isNew <=> now - data.createdAt < 86400000)
           /\ "createdAt" \notin DOMAIN data => ~post.isNew]_vars

\* a post read exactly one day after its creation
C27_Witness ==
  /\ rd.pc = "done" /\ rd.outcome = "ok"
  /\ "createdAt" \in DOMAIN posts[1]
  /\ now - posts[1].createdAt = 86400000
  /\ \E post \in rd.result : post.id = 1 /\ ~post.isNew

\* two addCategory calls that ran concurrently and alone: the second began
\* next after the first and while it was in flight, no call was in flight
\* when the first began, none has begun since, and both have ended
Earlier == IF ac[1].seq < ac[2].seq THEN ac[1] ELSE ac[2]

Later == IF ac[1].seq < ac[2].seq THEN ac[2] ELSE ac[1]

ConcurrentPair ==
  /\ ac[1].pc = "done" /\ ac[2].pc = "done"
  /\ Later.seq = Earlier.seq + 1
  /\ Later.peer = Earlier.seq /\ Earlier.peer = 0
  /\ ops = Later.seq

NewEntry(call) == Cat(Str(Slug(call.name)), Str(call.name))

Kept(before, after) ==
  /\ Len(before) <= Len(after)
  /\ \A i \in DOMAIN before : after[i] = before[i]

NoLostUpdate ==
  IF Earlier.name # Later.name /\ Slug(Earlier.name) # Slug(Later.name)
    THEN /\ Earlier.outcome = "ok" /\ Later.outcome = "ok"
         /\ IdCount(categories, NewEntry(Earlier).id) = 1
         /\ IdCount(categories, NewEntry(Later).id) = 1
         /\ \E i \in DOMAIN categories : categories[i] = NewEntry(Earlier)
         /\ \E i \in DOMAIN categories : categories[i] = NewEntry(Later)
         /\ Len(categories) = Len(Earlier.base) + 2
         /\ Kept(Earlier.base, categories)
    ELSE /\ (Earlier.outcome = "ok") # (Later.outcome = "ok")
         /\ IdCount(categories, NewEntry(Earlier).id) = 1
         /\ Kept(Earlier.base, categories)

\* C28 as stated: two concurrent addCategory calls with names and slugs
\* that differ both succeed and the list holds both new entries and every
\* earlier entry; with the same name or the same slug exactly one succeeds
\* and the list holds exactly one entry with that id.
C28_ConcurrentAdds == ConcurrentPair => NoLostUpdate

\* the names of the two calls are acceptable to a call that runs alone on
\* the list the first call began with
Acceptable(call) ==
  /\ Str(Slug(call.name)) # ""
  /\ AddCheck(Earlier.base, call.name) = "ok"

\* C28 amended: the same for two admin-authenticated calls whose names
\* have a slug that is not empty and whose ids and names are not in the
\* list when the calls begin.
C28_ConcurrentFreshAdds ==
  (ConcurrentPair /\ admin /\ Acceptable(Earlier) /\ Acceptable(Later)) => NoLostUpdate

\* both calls read the list before either committed; the names differ
C28_Witness ==
  /\ ConcurrentPair /\ admin /\ Acceptable(Earlier) /\ Acceptable(Later)
  /\ Earlier.seen = Earlier.base /\ Later.seen # Later.base
  /\ Slug(Earlier.name) # Slug(Later.name)
  /\ Later.outcome = "ok"

\* the same with one slug for two names
C28_WitnessSameSlug ==
  /\ ConcurrentPair /\ admin /\ Acceptable(Earlier) /\ Acceptable(Later)
  /\ Earlier.name # Later.name /\ Slug(Earlier.name) = Slug(Later.name)
  /\ Later.seen # Later.base

\* a post that has been created and deleted: its id has been given out
Deleted(p) == p < nextId /\ ~Exists(p)

\* C29: once a post is deleted it never exists again; the write of an
\* updatePost or movePost whose check ran before the delete fails and
\* writes nothing, and so does the commit of a deleteCategory whose query
\* matched the post before the delete.
C29_DeleteIsFinal ==
  [][/\ \A p \in PostIds : Deleted(p) => ~Exists(p)'
     /\ (pm.pc = "write" /\ pm.op \in {"updatePost", "movePost"}
            /\ Deleted(pm.post) /\ pm'.pc = "idle") =>
          (last' = [op |-> pm.op, outcome |-> "notfound"] /\ posts' = posts)
     /\ (DeleteCommitStep /\ \E p \in dc.matched : Deleted(p)) =>
          (/\ last' = [op |-> "deleteCategory", outcome |-> "error"]
           /\ posts' = posts /\ categories' = categories)]_vars

\* updatePost has passed its ownership check, another session's deletePost
\* has succeeded since, and updatePost's write is still to come
C29_Witness ==
  /\ pm.pc = "write" /\ pm.op = "updatePost" /\ Truthy(pm.userId)
  /\ Deleted(pm.post)
  /\ last = [op |-> "deletePost", outcome |-> "ok"]

\* the call ended at verifyAdminAuth: no read, query, transaction or write
Gated(op) ==
  /\ last' = [op |-> op, outcome |-> "admin"]
  /\ categories' = categories /\ posts' = posts
  /\ dc' = dc /\ ro' = ro /\ ac' = ac

\* C30: for a caller that is not admin-authenticated, addCategory,
\* updateCategory, deleteCategory and reorderCategories each fail at once
\* with the admin error, start no read, query, transaction or write and
\* leave the category list and the posts as they are; fetchCategories
\* answers with the stored list whether or not the caller is authenticated.
C30_AdminGate ==
  [][/\ ~admin =>
          /\ \A name \in AddNames : AddCategory(name) => Gated("addCategory")
          /\ \A id \in CategoryArgs, name \in NewNames :
               UpdateCategory(id, name) => Gated("updateCategory")
          /\ \A id \in CategoryArgs :
               DeleteCategoryRead(id) => Gated("deleteCategory")
          /\ \A sorted \in FewCandidates(categories) :
               ReorderCategoriesRead(sorted) => Gated("reorderCategories")
          /\ categories' = categories /\ dc' = dc /\ ro' = ro
     /\ FetchCategories =>
          last' = [op |-> "fetchCategories", outcome |-> "ok", returned |-> categories]]_vars

\* deleteCategory refused for a caller that is not signed in, on a store
\* that holds a post
C30_Witness ==
  /\ ~admin
  /\ last = [op |-> "deleteCategory", outcome |-> "admin"]
  /\ \E p \in PostIds : Exists(p)

=============================================================================
